---- MODULE Spec2Model ----
(***************************************************************************)
(* AI Study Assistant: the keyword classifier (subject_categorizer.py),    *)
(* the persistence layer (database.py) and the Streamlit script that wires *)
(* them to user events (app.py).                                           *)
(*                                                                         *)
(* Text is modelled as a sequence of one-character strings, so that word   *)
(* boundaries, substring tests, lower-casing and stripping are computed    *)
(* character by character, the way the code computes them.                 *)
(***************************************************************************)
EXTENDS Integers, Sequences, FiniteSets, TLC

None == "None"

(***************************************************************************)
(* Characters                                                              *)
(***************************************************************************)
UpperCase == <<"A","B","C","D","E","F","G","H","I","J","K","L","M",
               "N","O","P","Q","R","S","T","U","V","W","X","Y","Z">>
LowerCase == <<"a","b","c","d","e","f","g","h","i","j","k","l","m",
               "n","o","p","q","r","s","t","u","v","w","x","y","z">>
Digits == {"0","1","2","3","4","5","6","7","8","9"}
Range(f) == {f[i] : i \in DOMAIN f}

\* str.lower() on one character, then on a string
ToLower ==
  [c \in Range(UpperCase) |-> LowerCase[CHOOSE i \in DOMAIN UpperCase : UpperCase[i] = c]]
LowerChar(c) == IF c \in DOMAIN ToLower THEN ToLower[c] ELSE c
lower(s) == [i \in DOMAIN s |-> LowerChar(s[i])]

\* the regex class \w
WordChars == Range(UpperCase) \cup Range(LowerCase) \cup Digits \cup {"_"}
IsWordChar(c) == c \in WordChars

\* the regex assertion \b at the gap before position p of s (1 <= p <= Len(s)+1)
WordBoundary(s, p) ==
  LET before == p > 1 /\ IsWordChar(s[p - 1])
      after  == p <= Len(s) /\ IsWordChar(s[p])
  IN before # after

\* the pattern \b + re.escape(keyword) + \b matches s at position i
PatternMatchesAt(kw, s, i) ==
  /\ i + Len(kw) - 1 <= Len(s)
  /\ SubSeq(s, i, i + Len(kw) - 1) = kw
  /\ WordBoundary(s, i)
  /\ WordBoundary(s, i + Len(kw))

\* len(re.findall(pattern, s)): left-to-right scan, matches do not overlap
RECURSIVE FindAllFrom(_, _, _)
FindAllFrom(kw, s, i) ==
  IF i > Len(s) THEN 0
  ELSE IF PatternMatchesAt(kw, s, i)
       THEN 1 + FindAllFrom(kw, s, i + Len(kw))
       ELSE FindAllFrom(kw, s, i + 1)
findall(kw, s) == FindAllFrom(kw, s, 1)

\* the substring test  kw in s
Contains(s, kw) ==
  \E i \in 1..(Len(s) - Len(kw) + 1) : SubSeq(s, i, i + Len(kw) - 1) = kw

(***************************************************************************)
(* subject_categorizer.py                                                  *)
(***************************************************************************)
SUBJECT_CATEGORIES ==
  <<
   [name |-> "Mathematics", keywords |-> <<
      <<"m","a","t","h">>, <<"a","l","g","e","b","r","a">>, <<"g","e","o","m","e","t","r","y">>,
      <<"c","a","l","c","u","l","u","s">>, <<"t","r","i","g","o","n","o","m","e","t","r","y">>,
      <<"a","r","i","t","h","m","e","t","i","c">>, <<"e","q","u","a","t","i","o","n">>,
      <<"f","o","r","m","u","l","a">>, <<"t","h","e","o","r","e","m">>, <<"p","r","o","o","f">>,
      <<"d","e","r","i","v","a","t","i","v","e">>, <<"i","n","t","e","g","r","a","l">>,
      <<"m","a","t","r","i","x">>, <<"v","e","c","t","o","r">>,
      <<"p","r","o","b","a","b","i","l","i","t","y">>,
      <<"s","t","a","t","i","s","t","i","c","s">>, <<"g","r","a","p","h">>,
      <<"f","u","n","c","t","i","o","n">>, <<"p","o","l","y","n","o","m","i","a","l">>,
      <<"l","o","g","a","r","i","t","h","m">>, <<"s","i","n","e">>, <<"c","o","s","i","n","e">>,
      <<"t","a","n","g","e","n","t">>, <<"q","u","a","d","r","a","t","i","c">>,
      <<"l","i","n","e","a","r">>, <<"e","x","p","o","n","e","n","t","i","a","l">> >>],
   [name |-> "Science", keywords |-> <<
      <<"p","h","y","s","i","c","s">>, <<"c","h","e","m","i","s","t","r","y">>,
      <<"b","i","o","l","o","g","y">>, <<"s","c","i","e","n","c","e">>, <<"a","t","o","m">>,
      <<"m","o","l","e","c","u","l","e">>, <<"c","e","l","l">>,
      <<"o","r","g","a","n","i","s","m">>, <<"e","v","o","l","u","t","i","o","n">>,
      <<"g","e","n","e","t","i","c","s">>, <<"D","N","A">>,
      <<"p","h","o","t","o","s","y","n","t","h","e","s","i","s">>,
      <<"r","e","s","p","i","r","a","t","i","o","n">>, <<"g","r","a","v","i","t","y">>,
      <<"f","o","r","c","e">>, <<"e","n","e","r","g","y">>, <<"m","o","m","e","n","t","u","m">>,
      <<"w","a","v","e">>, <<"l","i","g","h","t">>,
      <<"e","l","e","c","t","r","i","c","i","t","y">>, <<"m","a","g","n","e","t","i","s","m">>,
      <<"c","h","e","m","i","c","a","l">>, <<"r","e","a","c","t","i","o","n">>,
      <<"e","l","e","m","e","n","t">>, <<"c","o","m","p","o","u","n","d">>,
      <<"e","c","o","s","y","s","t","e","m">> >>],
   [name |-> "History", keywords |-> <<
      <<"h","i","s","t","o","r","y">>, <<"h","i","s","t","o","r","i","c","a","l">>,
      <<"a","n","c","i","e","n","t">>, <<"m","e","d","i","e","v","a","l">>,
      <<"r","e","v","o","l","u","t","i","o","n">>, <<"w","a","r">>, <<"e","m","p","i","r","e">>,
      <<"c","i","v","i","l","i","z","a","t","i","o","n">>, <<"c","u","l","t","u","r","e">>,
      <<"d","e","m","o","c","r","a","c","y">>, <<"m","o","n","a","r","c","h","y">>,
      <<"r","e","p","u","b","l","i","c">>, <<"t","r","e","a","t","y">>,
      <<"c","o","n","s","t","i","t","u","t","i","o","n">>,
      <<"i","n","d","e","p","e","n","d","e","n","c","e">>, <<"c","o","l","o","n","i","a","l">>,
      <<"r","e","n","a","i","s","s","a","n","c","e">>,
      <<"r","e","f","o","r","m","a","t","i","o","n">> >>],
   [name |-> "Geography", keywords |-> <<
      <<"g","e","o","g","r","a","p","h","y">>, <<"c","o","n","t","i","n","e","n","t">>,
      <<"c","o","u","n","t","r","y">>, <<"c","a","p","i","t","a","l">>,
      <<"m","o","u","n","t","a","i","n">>, <<"r","i","v","e","r">>, <<"o","c","e","a","n">>,
      <<"c","l","i","m","a","t","e">>, <<"w","e","a","t","h","e","r">>,
      <<"l","a","t","i","t","u","d","e">>, <<"l","o","n","g","i","t","u","d","e">>,
      <<"p","o","p","u","l","a","t","i","o","n">>, <<"m","a","p">>, <<"a","t","l","a","s">>,
      <<"d","e","s","e","r","t">>, <<"f","o","r","e","s","t">>, <<"p","l","a","t","e","a","u">>,
      <<"v","a","l","l","e","y">>, <<"i","s","l","a","n","d">>,
      <<"p","e","n","i","n","s","u","l","a">> >>],
   [name |-> "Literature", keywords |-> <<
      <<"l","i","t","e","r","a","t","u","r","e">>, <<"p","o","e","m">>,
      <<"p","o","e","t","r","y">>, <<"n","o","v","e","l">>, <<"s","t","o","r","y">>,
      <<"a","u","t","h","o","r">>, <<"w","r","i","t","e","r">>, <<"b","o","o","k">>,
      <<"c","h","a","r","a","c","t","e","r">>, <<"p","l","o","t">>, <<"t","h","e","m","e">>,
      <<"m","e","t","a","p","h","o","r">>, <<"s","y","m","b","o","l","i","s","m">>,
      <<"a","l","l","i","t","e","r","a","t","i","o","n">>,
      <<"s","h","a","k","e","s","p","e","a","r","e">>, <<"p","r","o","s","e">>,
      <<"v","e","r","s","e">>, <<"n","a","r","r","a","t","i","v","e">>,
      <<"f","i","c","t","i","o","n">>, <<"n","o","n","-","f","i","c","t","i","o","n">> >>],
   [name |-> "Computer Science", keywords |-> <<
      <<"p","r","o","g","r","a","m","m","i","n","g">>, <<"c","o","m","p","u","t","e","r">>,
      <<"s","o","f","t","w","a","r","e">>, <<"h","a","r","d","w","a","r","e">>,
      <<"a","l","g","o","r","i","t","h","m">>, <<"c","o","d","i","n","g">>, <<"c","o","d","e">>,
      <<"p","y","t","h","o","n">>, <<"j","a","v","a","s","c","r","i","p","t">>,
      <<"j","a","v","a">>, <<"d","a","t","a"," ","s","t","r","u","c","t","u","r","e">>,
      <<"d","a","t","a","b","a","s","e">>, <<"n","e","t","w","o","r","k">>,
      <<"i","n","t","e","r","n","e","t">>, <<"w","e","b","s","i","t","e">>, <<"a","p","p">>,
      <<"a","p","p","l","i","c","a","t","i","o","n">>, <<"d","e","b","u","g","g","i","n","g">>,
      <<"v","a","r","i","a","b","l","e">>, <<"f","u","n","c","t","i","o","n">>,
      <<"l","o","o","p">>, <<"a","r","r","a","y">>, <<"o","b","j","e","c","t">>,
      <<"c","l","a","s","s">> >>],
   [name |-> "Language Arts", keywords |-> <<
      <<"g","r","a","m","m","a","r">>, <<"v","o","c","a","b","u","l","a","r","y">>,
      <<"s","p","e","l","l","i","n","g">>, <<"w","r","i","t","i","n","g">>,
      <<"r","e","a","d","i","n","g">>, <<"c","o","m","p","r","e","h","e","n","s","i","o","n">>,
      <<"s","e","n","t","e","n","c","e">>, <<"p","a","r","a","g","r","a","p","h">>,
      <<"e","s","s","a","y">>, <<"v","e","r","b">>, <<"n","o","u","n">>,
      <<"a","d","j","e","c","t","i","v","e">>, <<"a","d","v","e","r","b">>,
      <<"p","u","n","c","t","u","a","t","i","o","n">>, <<"c","o","m","m","a">>,
      <<"p","e","r","i","o","d">>, <<"q","u","e","s","t","i","o","n"," ","m","a","r","k">>,
      <<"e","x","c","l","a","m","a","t","i","o","n">> >>],
   [name |-> "Social Studies", keywords |-> <<
      <<"g","o","v","e","r","n","m","e","n","t">>, <<"p","o","l","i","t","i","c","s">>,
      <<"e","c","o","n","o","m","i","c","s">>, <<"s","o","c","i","e","t","y">>,
      <<"c","o","m","m","u","n","i","t","y">>, <<"c","i","t","i","z","e","n","s","h","i","p">>,
      <<"r","i","g","h","t","s">>, <<"l","a","w">>, <<"j","u","s","t","i","c","e">>,
      <<"d","e","m","o","c","r","a","c","y">>, <<"e","l","e","c","t","i","o","n">>,
      <<"v","o","t","e">>, <<"t","a","x">>, <<"e","c","o","n","o","m","y">>,
      <<"m","a","r","k","e","t">>, <<"t","r","a","d","e">>, <<"c","u","r","r","e","n","c","y">>,
      <<"i","n","f","l","a","t","i","o","n">> >>]
  >>

Categories == DOMAIN SUBJECT_CATEGORIES

\* the strong-keyword threshold of lines 73 and 91
StrongLen == 6
\* the confident score of line 86
ConfidentScore == 2

\* the contribution of one keyword to its category's score (lines 68-74)
\* keyword.lower() of every keyword of the table (lines 68 and 91)
keyword_lower ==
  [c \in Categories |->
     [i \in DOMAIN SUBJECT_CATEGORIES[c].keywords |-> lower(SUBJECT_CATEGORIES[c].keywords[i])]]

\* mutant: a matching keyword counts once, however often it occurs
KeywordScoreOncePerKeyword(c, i, question_lower) ==
  LET matches == findall(keyword_lower[c][i], question_lower)
  IN (IF matches > 0 THEN 1 ELSE 0)
     + (IF Len(SUBJECT_CATEGORIES[c].keywords[i]) > StrongLen /\ matches > 0 THEN 1 ELSE 0)

\* the contribution of keyword i of category c to the score (lines 68-74)
KeywordScore(c, i, question_lower) ==
  LET matches == findall(keyword_lower[c][i], question_lower)
  IN matches
     + (IF Len(SUBJECT_CATEGORIES[c].keywords[i]) > StrongLen /\ matches > 0 THEN 1 ELSE 0)

RECURSIVE SumScores(_, _, _)
SumScores(c, question_lower, i) ==
  IF i > Len(SUBJECT_CATEGORIES[c].keywords) THEN 0
  ELSE KeywordScore(c, i, question_lower) + SumScores(c, question_lower, i + 1)

\* the score of category c (the inner loop of lines 65-74)
CategoryScore(c, question_lower) == SumScores(c, question_lower, 1)

\* category_scores: the categories with a positive score (lines 76-77)
category_scores(question_lower) ==
  LET all == [c \in Categories |-> CategoryScore(c, question_lower)]
  IN [c \in {d \in Categories : all[d] > 0} |-> all[c]]

\* mutant: among the categories with the greatest score the last one wins
best_category_last(scores) ==
  CHOOSE c \in DOMAIN scores :
    /\ \A d \in DOMAIN scores : scores[d] <= scores[c]
    /\ \A d \in DOMAIN scores : d > c => scores[d] < scores[c]

\* max(category_scores.keys(), key=...): the first key, in insertion order,
\* that has the greatest score (line 83)
best_category(scores) ==
  CHOOSE c \in DOMAIN scores :
    /\ \A d \in DOMAIN scores : scores[d] <= scores[c]
    /\ \A d \in DOMAIN scores : d < c => scores[d] < scores[c]

\* the single strong match test of lines 90-92
StrongSingleMatch(c, question_lower) ==
  \E i \in DOMAIN SUBJECT_CATEGORIES[c].keywords :
    /\ Len(SUBJECT_CATEGORIES[c].keywords[i]) > StrongLen
    /\ Contains(question_lower, keyword_lower[c][i])

categorize_question(question) ==
  IF question = <<>> THEN None
  ELSE
    LET question_lower == lower(question)
        scores == category_scores(question_lower)
    IN IF DOMAIN scores = {} THEN None
       ELSE LET best == best_category(scores)
            IN IF scores[best] >= ConfidentScore THEN SUBJECT_CATEGORIES[best].name
               ELSE IF scores[best] = 1 /\ StrongSingleMatch(best, question_lower)
                    THEN SUBJECT_CATEGORIES[best].name
                    ELSE None

(***************************************************************************)
(* Bounds of the model                                                     *)
(***************************************************************************)
\* questions given to the classifier have at most MaxWords words
MaxWords == 2
\* at most MaxSessions study sessions and MaxExchanges exchanges are ever created
MaxSessions == 2
MaxExchanges == 2
\* the clock reads 0..MaxTime
MaxTime == 1

\* the independent browser sessions (each has its own st.session_state)
Users == {"u1", "u2"}

(***************************************************************************)
(* State                                                                   *)
(***************************************************************************)
VARIABLES
  study_sessions,          \* committed rows of table study_sessions
  chat_exchanges,          \* committed rows of table chat_exchanges
  next_session_id,         \* the serial behind StudySession.id
  next_exchange_id,        \* the serial behind ChatExchange.id
  now,                     \* datetime.utcnow(), in microseconds
  pc,                      \* pc[u]: where user u's script run stands
  current_session_id,      \* st.session_state.current_session_id of each user
  ev,                      \* ev[u]: the widget event and locals of u's script run
  tx,                      \* tx[u]: the open delete transaction of u's db handle
  conversation_history,    \* conversation_history[u]: the list read at app.py line 203
  ret,                     \* ret[u]: what u's last persistence call returned
  deleted,                 \* session ids whose delete_study_session returned True
  handles,                 \* handles[u]: the storage handles u's script run holds open
  question, label, cpc     \* the classifier run on its own: input, result, position

dbvars == <<study_sessions, chat_exchanges, next_session_id, next_exchange_id, now>>
uivars == <<pc, current_session_id, ev, tx, conversation_history, ret, deleted, handles>>
cvars == <<question, label, cpc>>
vars == <<dbvars, uivars, cvars>>

\* st.session_state.current_session_id = None (app.py line 117); ids start at 1
NoSession == 0
\* a NULL integer column is <<>>, a value r is <<r>>
NoRating == <<>>
\* datetime.strftime("%Y-%m-%d %H:%M:%S") drops the microseconds
MicrosPerSecond == 1000000
strftime(t) == t \div MicrosPerSecond

SessionIds == {s.id : s \in study_sessions}
ExchangeIds == {e.id : e \in chat_exchanges}
ExchangesOf(session_id) == {e \in chat_exchanges : e.session_id = session_id}
Exchange(id) == CHOOSE e \in chat_exchanges : e.id = id

\* all orderings of a finite set of rows
Orderings(S) ==
  {f \in [1..Cardinality(S) -> S] : \A i, j \in 1..Cardinality(S) : i # j => f[i] # f[j]}

(***************************************************************************)
(* database.py: the storage handle of an operation.  Every operation runs  *)
(*   db = get_db_session(); try: ... finally: db.close()                   *)
(* and h counts the handles the caller holds open.                         *)
(***************************************************************************)
\* db = get_db_session(): one more handle is open (lines 44-46)
get_db_session(h) == h + 1
\* db.close(): the handle is given back
close(h) == IF h > 0 THEN h - 1 ELSE 0
\* mutant: db.close() is the last statement of the body, not a finally clause
finally_close_on_return(h, raised) == IF raised THEN h ELSE close(h)
\* finally: db.close() runs whether the body returned or raised
finally_close(h, raised) == close(h)
\* the handles open after one operation that is not delete_study_session
ScopedCall(h, raised) == finally_close(get_db_session(h), raised)
\* app.py lines 134, 156 and 170: every script run lists the sessions, reads the
\* statistics and looks up the current session
RunReads(h) == ScopedCall(ScopedCall(ScopedCall(h, FALSE), FALSE), FALSE)

(***************************************************************************)
(* database.py: row locks of the open delete transactions.  A DELETE locks *)
(* the rows it removes until its transaction ends; the foreign-key check   *)
(* of an INSERT and the UPDATE of a row wait for such a lock.              *)
(***************************************************************************)
NoTx == [open |-> FALSE, session_id |-> NoSession, exchanges |-> {}, session |-> FALSE]

SessionLockedByOther(u, session_id) ==
  \E v \in Users \ {u} : tx[v].open /\ tx[v].session /\ tx[v].session_id = session_id
ExchangeLockedByOther(u, exchange_id) ==
  \E v \in Users \ {u} : tx[v].open /\ exchange_id \in tx[v].exchanges

(***************************************************************************)
(* database.py: the operations, as functions of the committed rows         *)
(***************************************************************************)
\* StudySession(session_name=...) with its column defaults (lines 18-25, 52)
StudySession(id, session_name) ==
  [id |-> id, session_name |-> session_name, created_at |-> now, updated_at |-> now]

\* ChatExchange(...) with its column defaults (lines 27-38, 65-70)
ChatExchange(id, session_id, q, answer, subject_category) ==
  [id |-> id, session_id |-> session_id, question |-> q, answer |-> answer,
   subject_category |-> subject_category, rating |-> NoRating, feedback |-> None,
   timestamp |-> now]

\* create_study_session: the rows after the commit, and the id returned
create_study_session(session_name) ==
  [rows |-> study_sessions \cup {StudySession(next_session_id, session_name)},
   id |-> next_session_id]

\* mutant: the column carries no foreign key
ForeignKeyUnchecked(session_id) == TRUE

\* the foreign key of ChatExchange.session_id (line 32), checked at the INSERT
ForeignKeyHolds(session_id) == session_id \in SessionIds

\* save_chat_exchange: the commit raises IntegrityError when the foreign key
\* fails, and then nothing is stored; otherwise the new id is returned
save_chat_exchange(session_id, q, answer, subject_category) ==
  IF ForeignKeyHolds(session_id)
  THEN [raised |-> FALSE, id |-> next_exchange_id,
        rows |-> chat_exchanges
                 \cup {ChatExchange(next_exchange_id, session_id, q, answer, subject_category)}]
  ELSE [raised |-> TRUE, id |-> 0, rows |-> chat_exchanges]

\* get_study_sessions: ORDER BY updated_at DESC; rows with equal updated_at come
\* in any order, so this is the set of lists the query may return
get_study_sessions ==
  {[i \in DOMAIN f |-> [id |-> f[i].id, name |-> f[i].session_name,
                        created_at |-> f[i].created_at, updated_at |-> f[i].updated_at]] :
     f \in {g \in Orderings(study_sessions) :
              \A i, j \in DOMAIN g : i < j => g[i].updated_at >= g[j].updated_at}}

\* get_chat_history: WHERE session_id = ... ORDER BY timestamp ASC; rows with
\* equal timestamp come in any order, so this is the set of lists it may return
HistoryItem(e) ==
  [id |-> e.id, question |-> e.question, answer |-> e.answer,
   subject_category |-> e.subject_category, rating |-> e.rating,
   feedback |-> e.feedback, timestamp |-> strftime(e.timestamp)]
get_chat_history(session_id) ==
  {[i \in DOMAIN f |-> HistoryItem(f[i])] :
     f \in {g \in Orderings(ExchangesOf(session_id)) :
              \A i, j \in DOMAIN g : i < j => g[i].timestamp <= g[j].timestamp}}

\* if feedback:  (None and the empty string are both false)
Truthy(feedback) == feedback # None /\ feedback # ""

\* mutant: line 113 is missing, the feedback is always overwritten
update_exchange_rating_overwrites(exchange_id, rating, feedback) ==
  IF exchange_id \in ExchangeIds
  THEN [ret |-> TRUE,
        rows |-> {IF e.id = exchange_id
                  THEN [e EXCEPT !.rating = rating, !.feedback = feedback]
                  ELSE e : e \in chat_exchanges}]
  ELSE [ret |-> FALSE, rows |-> chat_exchanges]

\* mutant: a rating button pressed again takes the rating back
update_exchange_rating_on_toggles(rows, exchange_id, rating, feedback) ==
  IF \E e \in rows : e.id = exchange_id
  THEN [ret |-> TRUE,
        rows |-> {IF e.id = exchange_id
                  THEN [e EXCEPT !.rating = IF @ = rating THEN NoRating ELSE rating,
                                 !.feedback = IF Truthy(feedback) THEN feedback ELSE @]
                  ELSE e : e \in rows}]
  ELSE [ret |-> FALSE, rows |-> rows]

\* lines 110-117 on the committed rows `rows` of chat_exchanges: the rows after
\* the commit and the value returned
update_exchange_rating_on(rows, exchange_id, rating, feedback) ==
  IF \E e \in rows : e.id = exchange_id
  THEN [ret |-> TRUE,
        rows |-> {IF e.id = exchange_id
                  THEN [e EXCEPT !.rating = rating,
                                 !.feedback = IF Truthy(feedback) THEN feedback ELSE @]
                  ELSE e : e \in rows}]
  ELSE [ret |-> FALSE, rows |-> rows]

\* update_exchange_rating: the rows after the call and the value returned
update_exchange_rating(exchange_id, rating, feedback) ==
  update_exchange_rating_on(chat_exchanges, exchange_id, rating, feedback)

\* delete_study_session, statement by statement inside one transaction.
\* Line 126: the exchanges of the session are deleted in the transaction
DeleteExchangesStmt(t, session_id) ==
  [t EXCEPT !.open = TRUE, !.session_id = session_id,
            !.exchanges = {e.id : e \in ExchangesOf(session_id)}]
\* Line 128: the session row is deleted in the transaction; the foreign key
\* forbids it while a committed exchange outside the transaction refers to it
DeleteSessionAllowed(t) ==
  \A e \in ExchangesOf(t.session_id) : e.id \in t.exchanges
DeleteSessionStmt(t) == [t EXCEPT !.session = t.session_id \in SessionIds]
\* mutant: the commit loses the deletion of the exchanges
CommitExchangesKeepsRows(t) == chat_exchanges
\* mutant: the except clause commits what the transaction had deleted so far
RollbackExchangesKeepsDeletes(t) == {e \in chat_exchanges : e.id \notin t.exchanges}

\* Line 129: the commit applies the transaction's deletions together
CommitSessions(t) ==
  IF t.session THEN {s \in study_sessions : s.id # t.session_id} ELSE study_sessions
CommitExchanges(t) == {e \in chat_exchanges : e.id \notin t.exchanges}
\* Line 132: the rollback drops them
RollbackSessions(t) == study_sessions
RollbackExchanges(t) == chat_exchanges

\* decimal rounding to two places, half to even: round(avg_rating, 2) in hundredths
RoundHundredths(num, den) ==
  LET n == IF num < 0 THEN -num ELSE num
      q == (100 * n) \div den
      r == (100 * n) % den
      up == 2 * r > den \/ (2 * r = den /\ q % 2 = 1)
      m == IF up THEN q + 1 ELSE q
  IN IF num < 0 THEN -m ELSE m

RECURSIVE SumRatings(_)
SumRatings(S) ==
  IF S = {} THEN 0
  ELSE LET e == CHOOSE x \in S : TRUE IN e.rating[1] + SumRatings(S \ {e})

\* get_session_stats (lines 137-151); average_rating is <<>> for None, else
\* <<h>> with h the rounded mean in hundredths
get_session_stats ==
  LET rated == {e \in chat_exchanges : e.rating # NoRating}
      \* func.avg over no rows is NULL
      avg_rating == IF rated = {} THEN <<>>
                    ELSE <<SumRatings(rated), Cardinality(rated)>>
      \* "if avg_rating": None and a zero Decimal are both false
      truthy == avg_rating # <<>> /\ avg_rating[1] # 0
  IN [total_sessions |-> Cardinality(study_sessions),
      total_exchanges |-> Cardinality(chat_exchanges),
      average_rating |-> IF truthy THEN <<RoundHundredths(avg_rating[1], avg_rating[2])>>
                         ELSE <<>>]

(***************************************************************************)
(* app.py: inputs of the script                                            *)
(***************************************************************************)
\* str.strip(): leading and trailing whitespace removed
Whitespace == {" ", "\t", "\n"}
RECURSIVE lstrip(_)
lstrip(s) == IF s # <<>> /\ Head(s) \in Whitespace THEN lstrip(Tail(s)) ELSE s
RECURSIVE rstrip(_)
rstrip(s) ==
  IF s # <<>> /\ s[Len(s)] \in Whitespace THEN rstrip(SubSeq(s, 1, Len(s) - 1)) ELSE s
\* mutant: the form tests question, not question.strip()
strip_nothing(s) == s
strip(s) == rstrip(lstrip(s))

\* what a user may type in the question box
AppQuestions ==
  { <<>>, <<" ">>, <<" ","m","a","t","h"," ","p","r","o","o","f">> }
\* categorize_question on each of them
subject_category_of == [q \in AppQuestions |-> categorize_question(q)]

SorryText == "I'm sorry, I couldn't generate a response. Please try again."
ErrorText == "Error getting response from AI: unavailable"
\* what a user may type in the feedback box, and the two rating buttons
Feedbacks == {"", "good"}
Ratings == {1, -1}

\* sessions[:10] of the sidebar (line 137)
RecentLimit == 10

\* f"Study Session {datetime.now().strftime('%Y-%m-%d %H:%M')}" (line 128)
SessionName(t) == <<"Study Session", t \div (60 * MicrosPerSecond)>>

NoEvent ==
  [kind |-> "none", outcome |-> "none", session_id |-> NoSession, question |-> <<>>,
   subject_category |-> None, answer |-> None, llm_calls |-> 0, llm_failed |-> FALSE,
   exchange_id |-> 0, rating |-> NoRating, feedback |-> None, tx_exchanges |-> {}]

(***************************************************************************)
(* app.py: get_enhanced_ai_response (lines 40-85), seen from its caller:   *)
(* one request, and the answer for each thing the request may do           *)
(***************************************************************************)
\* mutant: the except clause of line 84 lets the exception through
get_enhanced_ai_response_reraises(outcome) ==
  [answer |-> IF outcome = "text" THEN "response" ELSE None,
   requests |-> 1,
   failed |-> outcome = "raise",
   raised |-> outcome = "raise"]

get_enhanced_ai_response(outcome) ==
  [answer |-> IF outcome = "text" THEN "response"
              ELSE IF outcome = "empty" THEN SorryText
              ELSE ErrorText,
   requests |-> 1,
   failed |-> outcome = "raise",
   \* the except clause of line 84 catches every exception: none reaches the caller
   raised |-> FALSE]

(***************************************************************************)
(* Init                                                                    *)
(***************************************************************************)
AppInit ==
  /\ study_sessions = {}
  /\ chat_exchanges = {}
  /\ next_session_id = 1
  /\ next_exchange_id = 1
  /\ now = 0
  /\ pc = [u \in Users |-> "idle"]
  /\ current_session_id = [u \in Users |-> NoSession]
  /\ ev = [u \in Users |-> NoEvent]
  /\ tx = [u \in Users |-> NoTx]
  /\ conversation_history = [u \in Users |-> <<>>]
  /\ ret = [u \in Users |-> "none"]
  /\ deleted = {}
  /\ handles = [u \in Users |-> 0]

Init ==
  /\ AppInit
  /\ question = <<>>
  /\ label = None
  /\ cpc = "off"

(***************************************************************************)
(* app.py main(): one script run per widget event                          *)
(***************************************************************************)
\* the clock advances; only its order against stored timestamps matters
Tick ==
  /\ now < MaxTime
  /\ \/ \E s \in study_sessions : s.updated_at = now
     \/ \E e \in chat_exchanges : e.timestamp = now
  /\ now' = now + 1
  /\ UNCHANGED <<study_sessions, chat_exchanges, next_session_id, next_exchange_id,
                 uivars, cvars>>

\* the ids the sidebar may show: those of the first RecentLimit items of the list
\* (lines 134-137); all of them when the list is no longer than that
Listed ==
  IF Cardinality(study_sessions) <= RecentLimit THEN SessionIds
  ELSE UNION {{listing[i].id : i \in 1..RecentLimit} : listing \in get_study_sessions}

\* lines 169-176: is the current session among the stored ones (the whole list is
\* searched, so its order does not matter)
CurrentSessionFound(u) == \E s \in study_sessions : s.id = current_session_id[u]

\* lines 127-131: "New Study Session"
NewSession(u) ==
  /\ pc[u] = "idle"
  /\ next_session_id <= MaxSessions
  /\ LET r == create_study_session(SessionName(now))
     IN /\ study_sessions' = r.rows
        /\ current_session_id' = [current_session_id EXCEPT ![u] = r.id]
  /\ next_session_id' = next_session_id + 1
  /\ handles' = [handles EXCEPT ![u] = RunReads(ScopedCall(@, FALSE))]
  /\ UNCHANGED <<chat_exchanges, next_exchange_id, now, pc, ev, tx,
                 conversation_history, ret, deleted, cvars>>

\* lines 140-146: a session of the sidebar is loaded
LoadSession(u, s) ==
  /\ pc[u] = "idle"
  /\ s \in Listed
  /\ current_session_id' = [current_session_id EXCEPT ![u] = s]
  /\ handles' = [handles EXCEPT ![u] = RunReads(ScopedCall(@, FALSE))]
  /\ UNCHANGED <<dbvars, pc, ev, tx, conversation_history, ret, deleted, cvars>>

\* lines 169-176 in a run without a widget event: a stale current session is dropped
Render(u) ==
  /\ pc[u] = "idle"
  /\ current_session_id[u] # NoSession
  /\ ~CurrentSessionFound(u)
  /\ current_session_id' = [current_session_id EXCEPT ![u] = NoSession]
  /\ handles' = [handles EXCEPT ![u] = RunReads(@)]
  /\ UNCHANGED <<dbvars, pc, ev, tx, conversation_history, ret, deleted, cvars>>

\* the script run has ended (or st.rerun() was called): its locals are gone
Finish(u) ==
  /\ pc[u] = "done"
  /\ pc' = [pc EXCEPT ![u] = "idle"]
  /\ ev' = [ev EXCEPT ![u] = NoEvent]
  /\ ret' = [ret EXCEPT ![u] = "none"]
  /\ handles' = [handles EXCEPT ![u] = RunReads(@)]
  /\ UNCHANGED <<dbvars, current_session_id, tx, conversation_history, deleted, cvars>>

(***************************************************************************)
(* The delete button (app.py lines 149-153) and delete_study_session       *)
(* (database.py lines 121-135), one step per statement                     *)
(***************************************************************************)
ClearIfCurrent(u, s) ==
  [current_session_id EXCEPT ![u] = IF @ = s THEN NoSession ELSE @]

ClickDelete(u, s) ==
  /\ pc[u] = "idle"
  /\ s \in Listed
  /\ pc' = [pc EXCEPT ![u] = "delete_exchanges"]
  /\ ev' = [ev EXCEPT ![u] = [NoEvent EXCEPT !.kind = "delete", !.session_id = s]]
  /\ handles' = [handles EXCEPT ![u] = get_db_session(ScopedCall(@, FALSE))]
  /\ UNCHANGED <<dbvars, current_session_id, tx, conversation_history, ret, deleted, cvars>>

\* line 126
DeleteExchanges(u) ==
  /\ pc[u] = "delete_exchanges"
  /\ \A e \in ExchangesOf(ev[u].session_id) : ~ExchangeLockedByOther(u, e.id)
  /\ tx' = [tx EXCEPT ![u] = DeleteExchangesStmt(NoTx, ev[u].session_id)]
  /\ pc' = [pc EXCEPT ![u] = "delete_session"]
  /\ UNCHANGED <<handles, dbvars, current_session_id, ev, conversation_history, ret, deleted, cvars>>

\* line 128, when the foreign key lets the row go
DeleteSession(u) ==
  /\ pc[u] = "delete_session"
  /\ ~SessionLockedByOther(u, ev[u].session_id)
  /\ DeleteSessionAllowed(tx[u])
  /\ tx' = [tx EXCEPT ![u] = DeleteSessionStmt(tx[u])]
  /\ pc' = [pc EXCEPT ![u] = "delete_commit"]
  /\ UNCHANGED <<handles, dbvars, current_session_id, ev, conversation_history, ret, deleted, cvars>>

\* lines 131-135 and app.py lines 151-153: the except clause rolls back and the
\* call returns False
DeleteFails(u, why) ==
  /\ study_sessions' = RollbackSessions(tx[u])
  /\ chat_exchanges' = RollbackExchanges(tx[u])
  /\ ev' = [ev EXCEPT ![u].outcome = why, ![u].tx_exchanges = tx[u].exchanges]
  /\ tx' = [tx EXCEPT ![u] = NoTx]
  /\ ret' = [ret EXCEPT ![u] = "False"]
  /\ current_session_id' = ClearIfCurrent(u, ev[u].session_id)
  /\ pc' = [pc EXCEPT ![u] = "done"]
  /\ handles' = [handles EXCEPT ![u] = finally_close(@, TRUE)]
  /\ UNCHANGED <<next_session_id, next_exchange_id, now, conversation_history, deleted, cvars>>

\* line 128 raises IntegrityError: an exchange stored since line 126 refers to the session
DeleteSessionRefused(u) ==
  /\ pc[u] = "delete_session"
  /\ ~SessionLockedByOther(u, ev[u].session_id)
  /\ ~DeleteSessionAllowed(tx[u])
  /\ DeleteFails(u, "IntegrityError")

\* the storage fails under line 126, line 128 or line 129
DeleteFault(u) ==
  /\ pc[u] \in {"delete_exchanges", "delete_session", "delete_commit"}
  /\ DeleteFails(u, "OperationalError")

\* line 129 and app.py lines 151-153: the commit, and the call returns True
DeleteCommit(u) ==
  /\ pc[u] = "delete_commit"
  /\ study_sessions' = CommitSessions(tx[u])
  /\ chat_exchanges' = CommitExchanges(tx[u])
  /\ ev' = [ev EXCEPT ![u].outcome = "committed", ![u].tx_exchanges = tx[u].exchanges]
  /\ tx' = [tx EXCEPT ![u] = NoTx]
  /\ ret' = [ret EXCEPT ![u] = "True"]
  /\ deleted' = deleted \cup {ev[u].session_id}
  /\ current_session_id' = ClearIfCurrent(u, ev[u].session_id)
  /\ pc' = [pc EXCEPT ![u] = "done"]
  /\ handles' = [handles EXCEPT ![u] = finally_close(@, FALSE)]
  /\ UNCHANGED <<next_session_id, next_exchange_id, now, conversation_history, cvars>>

(***************************************************************************)
(* The question form (app.py lines 169-224)                                *)
(***************************************************************************)
InFlight == Cardinality({u \in Users : pc[u] \in {"read_history", "llm", "save"}})

\* the form is submitted with question q: lines 169-181 and 196-200, 223-224
Submit(u, q) ==
  /\ pc[u] = "idle"
  /\ current_session_id[u] # NoSession
  /\ strip(q) # <<>> => next_exchange_id + InFlight <= MaxExchanges
  /\ IF ~CurrentSessionFound(u)
     THEN \* line 176: the form is not drawn in this run
          /\ current_session_id' = [current_session_id EXCEPT ![u] = NoSession]
          /\ ev' = [ev EXCEPT ![u] = [NoEvent EXCEPT !.kind = "submit", !.question = q,
                                                    !.outcome = "no_form"]]
          /\ pc' = [pc EXCEPT ![u] = "done"]
     ELSE IF strip(q) # <<>>
     THEN \* line 200
          /\ ev' = [ev EXCEPT ![u] = [NoEvent EXCEPT !.kind = "submit", !.question = q,
                                         !.outcome = "categorized",
                                         !.subject_category = subject_category_of[q]]]
          /\ pc' = [pc EXCEPT ![u] = "read_history"]
          /\ UNCHANGED current_session_id
     ELSE \* line 224
          /\ ev' = [ev EXCEPT ![u] = [NoEvent EXCEPT !.kind = "submit", !.question = q,
                                                    !.outcome = "warning"]]
          /\ pc' = [pc EXCEPT ![u] = "done"]
          /\ UNCHANGED current_session_id
  /\ handles' = [handles EXCEPT ![u] = RunReads(@)]
  /\ UNCHANGED <<dbvars, tx, conversation_history, ret, deleted, cvars>>

\* line 203
ReadHistory(u) ==
  /\ pc[u] = "read_history"
  /\ \E h \in get_chat_history(current_session_id[u]) :
       conversation_history' = [conversation_history EXCEPT ![u] = h]
  /\ pc' = [pc EXCEPT ![u] = "llm"]
  /\ handles' = [handles EXCEPT ![u] = ScopedCall(@, FALSE)]
  /\ UNCHANGED <<dbvars, current_session_id, ev, tx, ret, deleted, cvars>>

\* lines 206-211
CallLLM(u, outcome) ==
  /\ pc[u] = "llm"
  /\ LET r == get_enhanced_ai_response(outcome)
     IN /\ ev' = [ev EXCEPT ![u].answer = r.answer,
                            ![u].llm_calls = @ + r.requests,
                            ![u].llm_failed = r.failed,
                            ![u].outcome = IF r.raised THEN "raised" ELSE "answered"]
        /\ pc' = [pc EXCEPT ![u] = IF r.raised THEN "done" ELSE "save"]
  /\ conversation_history' = [conversation_history EXCEPT ![u] = <<>>]
  /\ UNCHANGED <<handles, dbvars, current_session_id, tx, ret, deleted, cvars>>

\* lines 214-221
SaveExchange(u) ==
  /\ pc[u] = "save"
  /\ ~SessionLockedByOther(u, current_session_id[u])
  /\ LET r == save_chat_exchange(current_session_id[u], ev[u].question, ev[u].answer,
                                 ev[u].subject_category)
     IN /\ chat_exchanges' = r.rows
        /\ next_exchange_id' = IF r.raised THEN next_exchange_id ELSE next_exchange_id + 1
        /\ ret' = [ret EXCEPT ![u] = IF r.raised THEN "IntegrityError" ELSE "id"]
        /\ handles' = [handles EXCEPT ![u] = ScopedCall(@, r.raised)]
        /\ ev' = [ev EXCEPT ![u].exchange_id = r.id,
                            ![u].outcome = IF r.raised THEN "raised" ELSE "saved"]
  /\ pc' = [pc EXCEPT ![u] = "done"]
  /\ UNCHANGED <<study_sessions, next_session_id, now, current_session_id, tx,
                 conversation_history, deleted, cvars>>

(***************************************************************************)
(* The chat history view (app.py lines 243-312).  Every exchange of the    *)
(* list read at line 243 is drawn, whatever the order of the list.         *)
(***************************************************************************)
\* lines 284-293: a rating button of an exchange the view shows
Rate(u, e, r) ==
  /\ pc[u] = "idle"
  /\ current_session_id[u] # NoSession
  /\ CurrentSessionFound(u)
  /\ \E x \in ExchangesOf(current_session_id[u]) : HistoryItem(x).id = e
  /\ ev' = [ev EXCEPT ![u] = [NoEvent EXCEPT !.kind = "rate", !.exchange_id = e,
                                            !.rating = <<r>>]]
  /\ pc' = [pc EXCEPT ![u] = "update"]
  /\ handles' = [handles EXCEPT ![u] = ScopedCall(RunReads(@), FALSE)]
  /\ UNCHANGED <<dbvars, current_session_id, tx, conversation_history, ret, deleted, cvars>>

\* lines 302-312: the feedback box of an exchange holds a new text
EditFeedback(u, e, text) ==
  /\ pc[u] = "idle"
  /\ current_session_id[u] # NoSession
  /\ CurrentSessionFound(u)
  /\ \E x \in ExchangesOf(current_session_id[u]) :
       LET exchange == HistoryItem(x)
       IN /\ exchange.id = e
          /\ text # exchange.feedback
          /\ ev' = [ev EXCEPT ![u] = [NoEvent EXCEPT !.kind = "feedback", !.exchange_id = e,
                                                    !.rating = exchange.rating,
                                                    !.feedback = text]]
  /\ pc' = [pc EXCEPT ![u] = "update"]
  /\ handles' = [handles EXCEPT ![u] = ScopedCall(RunReads(@), FALSE)]
  /\ UNCHANGED <<dbvars, current_session_id, tx, conversation_history, ret, deleted, cvars>>

\* lines 286, 292, 312: update_exchange_rating
UpdateRating(u) ==
  /\ pc[u] = "update"
  /\ ~ExchangeLockedByOther(u, ev[u].exchange_id)
  /\ LET r == update_exchange_rating(ev[u].exchange_id, ev[u].rating, ev[u].feedback)
     IN /\ chat_exchanges' = r.rows
        /\ ret' = [ret EXCEPT ![u] = IF r.ret THEN "True" ELSE "False"]
  /\ ev' = [ev EXCEPT ![u].outcome = "updated"]
  /\ pc' = [pc EXCEPT ![u] = "done"]
  /\ handles' = [handles EXCEPT ![u] = ScopedCall(@, FALSE)]
  /\ UNCHANGED <<study_sessions, next_session_id, next_exchange_id, now,
                 current_session_id, tx, conversation_history, deleted, cvars>>

\* the sidebar: sessions are created, loaded and deleted
SessionActions ==
  \/ \E u \in Users : NewSession(u)
  \/ \E u \in Users : \E s \in 1..MaxSessions : LoadSession(u, s)
  \/ \E u \in Users : Render(u)
  \/ \E u \in Users : \E s \in 1..MaxSessions : ClickDelete(u, s)
  \/ \E u \in Users : DeleteExchanges(u)
  \/ \E u \in Users : DeleteSession(u)
  \/ \E u \in Users : DeleteSessionRefused(u)
  \/ \E u \in Users : DeleteCommit(u)
  \/ \E u \in Users : Finish(u)

\* the question form, with the Gemini call answering
QuestionActions ==
  \/ \E u \in Users : \E q \in AppQuestions : Submit(u, q)
  \/ \E u \in Users : ReadHistory(u)
  \/ \E u \in Users : CallLLM(u, "text")
  \/ \E u \in Users : SaveExchange(u)

\* the environment misbehaves or moves: storage faults, a failing Gemini call, the clock
EnvironmentActions ==
  \/ Tick
  \/ \E u \in Users : DeleteFault(u)
  \/ \E u \in Users : CallLLM(u, "raise")

\* the chat history view
RatingActions ==
  \/ \E u \in Users : \E e \in 1..MaxExchanges : \E r \in Ratings : Rate(u, e, r)
  \/ \E u \in Users : \E e \in 1..MaxExchanges : \E text \in Feedbacks : EditFeedback(u, e, text)
  \/ \E u \in Users : UpdateRating(u)

Next == SessionActions \/ QuestionActions \/ EnvironmentActions \/ RatingActions
Spec == Init /\ [][Next]_vars

\* Sessions and questions of two users under storage faults, failing Gemini calls
\* and a moving clock; nobody rates
NextQuestions == SessionActions \/ QuestionActions \/ EnvironmentActions
SpecQuestions == Init /\ [][NextQuestions]_vars

\* Sessions, questions, ratings and feedback of two users; the Gemini call answers,
\* the storage does not fail and the clock stands still
NextRatings == SessionActions \/ QuestionActions \/ RatingActions
SpecRatings == Init /\ [][NextRatings]_vars

(***************************************************************************)
(* The classifier on its own: a question of at most MaxWords words is      *)
(* drawn and categorize_question is applied to it                          *)
(***************************************************************************)
Vocabulary ==
  { <<"m","a","t","h">>,
    <<"M","a","t","h","?">>,
    <<"a","l","g","e","b","r","a">>,
    <<"a","l","g","e","b","r","a","i","c">>,
    <<"f","u","n","c","t","i","o","n">>,
    <<"d","e","m","o","c","r","a","c","y">>,
    <<"c","o","d","e">>,
    <<"D","N","A">>,
    <<"d","a","t","a">>,
    <<"s","t","r","u","c","t","u","r","e">>,
    <<>> }

RECURSIVE Join(_)
Join(ws) ==
  IF ws = <<>> THEN <<>>
  ELSE IF Len(ws) = 1 THEN ws[1]
  ELSE ws[1] \o <<" ">> \o Join(Tail(ws))

Questions ==
  {Join(ws) : ws \in UNION {[1..n -> Vocabulary] : n \in 0..MaxWords}}

InitClassifier ==
  /\ AppInit
  /\ question \in Questions
  /\ label = None
  /\ cpc = "ask"

Categorize ==
  /\ cpc = "ask"
  /\ label' = categorize_question(question)
  /\ cpc' = "done"
  /\ UNCHANGED <<question, dbvars, uivars>>

NextClassifier == Categorize

SpecClassifier == InitClassifier /\ [][NextClassifier]_vars

(***************************************************************************)
(* Properties of the persistence layer and of the script                   *)
(***************************************************************************)
DeleteSteps == {"delete_exchanges", "delete_session", "delete_commit"}

\* a session whose deletion returned True has no history and is not listed
C1_Deleted ==
  \A s \in deleted :
    /\ get_chat_history(s) = {<<>>}
    /\ \A listing \in get_study_sessions : \A i \in DOMAIN listing : listing[i].id # s
\* the commit of a deletion removes the session and its exchanges, nothing else
C1_OthersKept ==
  \A u \in Users :
    (pc[u] = "delete_commit" /\ pc'[u] = "done" /\ ret'[u] = "True") =>
      /\ study_sessions' = {x \in study_sessions : x.id # ev[u].session_id}
      /\ chat_exchanges' = {e \in chat_exchanges : e.session_id # ev[u].session_id}
\* C1: once delete_study_session(s) has returned True, get_chat_history(s) is empty
\* and get_study_sessions does not list s, whatever is created, recorded or rated
\* afterwards; and the commit removes s and the exchanges of s, nothing else.
C1_DeleteRemovesSessionAndItsExchanges == []C1_Deleted /\ [][C1_OthersKept]_vars
\* a delete has returned True for a session that had exchanges, and another
\* session with an exchange is still stored
C1_Witness ==
  \E u \in Users :
    /\ pc[u] = "done" /\ ev[u].kind = "delete" /\ ret[u] = "True"
    /\ ev[u].tx_exchanges # {}
    /\ study_sessions # {} /\ chat_exchanges # {}

\* C2: get_session_stats reports the number of sessions, the number of exchanges
\* and the mean of the ratings that are not NULL, which is absent exactly when no
\* exchange is rated; with two sessions and two exchanges rated +1 and -1 it
\* reports 2, 2 and 0.0.
C2_StatsReportTheMean ==
  LET rated == {e \in chat_exchanges : e.rating # NoRating}
      stats == get_session_stats
  IN /\ stats.total_sessions = Cardinality(study_sessions)
     /\ stats.total_exchanges = Cardinality(chat_exchanges)
     /\ (stats.average_rating = <<>>) <=> (rated = {})
     /\ rated # {} =>
          stats.average_rating = <<RoundHundredths(SumRatings(rated), Cardinality(rated))>>
     /\ ( /\ Cardinality(study_sessions) = 2
          /\ Cardinality(chat_exchanges) = 2
          /\ {e.rating : e \in chat_exchanges} = {<<1>>, <<-1>>}
          /\ \A e, f \in chat_exchanges : e.session_id = f.session_id )
        => stats = [total_sessions |-> 2, total_exchanges |-> 2, average_rating |-> <<0>>]

\* a step of delete_study_session changes the stored rows only if it is the commit
\* of a call that returns True; a call that ends otherwise returns False
C3_AllOrNothing ==
  \A u \in Users :
    (pc[u] \in DeleteSteps /\ pc'[u] # pc[u]) =>
      /\ \/ ret'[u] = "True"
         \/ study_sessions' = study_sessions /\ chat_exchanges' = chat_exchanges
      /\ (pc'[u] = "done" /\ ev'[u].outcome # "committed") => ret'[u] = "False"
\* C3: a delete_study_session call that fails, under line 126, 128 or 129, returns
\* False, and no step of it has changed the stored sessions or exchanges: the
\* session is never left without some of its exchanges, nor exchanges without it.
C3_FailedDeleteLeavesStateUntouched == [][C3_AllOrNothing]_vars
\* a delete that had deleted exchanges in its transaction has returned False, and
\* the session and those exchanges are stored
C3_Witness ==
  \E u \in Users :
    /\ pc[u] = "done" /\ ev[u].kind = "delete" /\ ret[u] = "False"
    /\ ev[u].tx_exchanges # {}
    /\ ev[u].tx_exchanges \subseteq ExchangeIds
    /\ ev[u].session_id \in SessionIds

\* every stored exchange refers to a stored session
C4_ForeignKey == \A e \in chat_exchanges : e.session_id \in SessionIds
\* save_chat_exchange for a session that is not stored raises and stores nothing
C4_SaveRefused ==
  \A u \in Users :
    (pc[u] = "save" /\ pc'[u] = "done" /\ current_session_id[u] \notin SessionIds) =>
      /\ chat_exchanges' = chat_exchanges
      /\ ret'[u] = "IntegrityError"
\* C4: every stored exchange refers to a stored session, under every interleaving
\* of the users' submissions, deletions and creations; and save_chat_exchange for
\* a session that is not stored raises and stores nothing.
C4_ExchangesReferToSessions == []C4_ForeignKey /\ [][C4_SaveRefused]_vars
\* a submission found its session deleted when it came to record the exchange
C4_Witness ==
  \E u \in Users :
    /\ pc[u] = "done" /\ ev[u].kind = "submit" /\ ret[u] = "IntegrityError"
    /\ ev[u].answer # None

\* C5: get_chat_history returns the exchanges of a session in the order in which
\* they were recorded (the order of their ids), also when recordings tie on the
\* timestamp.
C5_HistoryInRecordingOrder ==
  \A s \in SessionIds :
    \A history \in get_chat_history(s) :
      \A i, j \in DOMAIN history : i < j => history[i].id < history[j].id

\* what one call of update_exchange_rating(e, r, f) returns and changes
C6_UpdateFrame ==
  \A u \in Users :
    (pc[u] = "update" /\ pc'[u] = "done") =>
      LET e == ev[u].exchange_id
          r == ev[u].rating
          f == ev[u].feedback
      IN /\ study_sessions' = study_sessions
         /\ IF e \notin ExchangeIds
            THEN ret'[u] = "False" /\ chat_exchanges' = chat_exchanges
            ELSE LET old == Exchange(e)
                     new == [old EXCEPT !.rating = r,
                                        !.feedback = IF f \in {None, ""} THEN old.feedback
                                                     ELSE f]
                 IN /\ ret'[u] = "True"
                    /\ chat_exchanges' = (chat_exchanges \ {old}) \cup {new}
\* C6: update_exchange_rating(e, r, f) returns False and changes nothing when e is
\* not stored; otherwise it returns True, sets the rating of e to r, replaces the
\* feedback of e by f only when f is not empty, and changes nothing else.
C6_UpdateRatingFrame == [][C6_UpdateFrame]_vars
\* a rating button was used on an exchange that carries feedback: the rating is
\* the new one and the feedback is still there
C6_Witness ==
  \E u \in Users :
    /\ pc[u] = "done" /\ ev[u].kind = "rate" /\ ret[u] = "True"
    /\ \E e \in chat_exchanges :
         e.id = ev[u].exchange_id /\ e.rating = ev[u].rating /\ e.feedback = "good"

\* a question made of whitespace only (or of nothing)
IsBlank(q) == \A i \in DOMAIN q : q[i] \in Whitespace

\* a blank submission, with the current session id kept in every case
C9_BlankStep ==
  \A u \in Users :
    (pc[u] = "idle" /\ ev'[u].kind = "submit" /\ IsBlank(ev'[u].question)) =>
      /\ pc'[u] = "done"
      /\ ev'[u].subject_category = None /\ ev'[u].llm_calls = 0
      /\ study_sessions' = study_sessions /\ chat_exchanges' = chat_exchanges
      /\ current_session_id'[u] = current_session_id[u]
\* C9 as stated: submitting a blank question ends the run before the classifier,
\* the Gemini call and every write, and leaves the sessions, the exchanges and the
\* current session id as they were.
C9_BlankSubmissionChangesNothing == [][C9_BlankStep]_vars
\* a blank submission, with the current session id kept if its session is stored
C9_BlankStepAmended ==
  \A u \in Users :
    (pc[u] = "idle" /\ ev'[u].kind = "submit" /\ IsBlank(ev'[u].question)) =>
      /\ pc'[u] = "done"
      /\ ev'[u].subject_category = None /\ ev'[u].llm_calls = 0
      /\ study_sessions' = study_sessions /\ chat_exchanges' = chat_exchanges
      /\ IF current_session_id[u] \in SessionIds
         THEN current_session_id'[u] = current_session_id[u] /\ ev'[u].outcome = "warning"
         ELSE current_session_id'[u] = NoSession /\ ev'[u].outcome = "no_form"
\* C9 as amended: submitting a blank question ends the run before the classifier,
\* the Gemini call and every write, and leaves the sessions and the exchanges as
\* they were; the current session id is kept, and the warning shown, when the
\* current session is still stored, and the id is cleared when it is not.
C9_BlankSubmissionRejected == [][C9_BlankStepAmended]_vars
\* a whitespace-only question was submitted and the warning was shown
C9_Witness ==
  \E u \in Users :
    /\ pc[u] = "done" /\ ev[u].kind = "submit" /\ ev[u].outcome = "warning"
    /\ ev[u].question # <<>> /\ IsBlank(ev[u].question)
    /\ current_session_id[u] # NoSession

\* the Gemini call is made once, its failure becomes the error text, and the
\* record step follows
C10_CallStep(u) ==
  (pc[u] = "llm" /\ pc'[u] # "llm") =>
    /\ pc'[u] = "save"
    /\ ev'[u].llm_calls = 1
    /\ ev'[u].llm_failed => ev'[u].answer = ErrorText
\* the record step of a failed call stores exactly one exchange, with the question
\* and the error text, in the current session
C10_Recorded(u) ==
  \E x \in chat_exchanges' \ chat_exchanges :
    /\ chat_exchanges' = chat_exchanges \cup {x}
    /\ x.session_id = current_session_id[u]
    /\ x.question = ev[u].question
    /\ x.answer = ErrorText
\* the steps of a submission, the record step of a failed call always storing
C10_Step ==
  \A u \in Users :
    /\ C10_CallStep(u)
    /\ (pc[u] = "save" /\ pc'[u] # "save" /\ ev[u].llm_failed) => C10_Recorded(u)
\* C10 as stated: when the Gemini call fails for a submitted question, the error
\* text becomes the answer, the call is not repeated, and exactly one exchange with
\* the question and the error text is recorded in the current session.
C10_FailedCallIsRecorded == [][C10_Step]_vars
\* the steps of a submission, the record step storing if the session is stored
C10_StepAmended ==
  \A u \in Users :
    /\ C10_CallStep(u)
    /\ (pc[u] = "save" /\ pc'[u] # "save" /\ ev[u].llm_failed) =>
         IF current_session_id[u] \in SessionIds
         THEN C10_Recorded(u) /\ ret'[u] = "id"
         ELSE chat_exchanges' = chat_exchanges /\ ret'[u] = "IntegrityError"
\* C10 as amended: when the Gemini call fails for a submitted question, the error
\* text becomes the answer, the call is not repeated and the record step follows;
\* it records exactly one exchange with the question and the error text in the
\* current session if that session is still stored, and otherwise raises and
\* stores nothing.
C10_FailedCallIsRecordedIfSessionStored == [][C10_StepAmended]_vars
\* a failed call was recorded: the stored answer is the error text
C10_Witness ==
  \E u \in Users :
    /\ pc[u] = "done" /\ ev[u].kind = "submit" /\ ev[u].llm_failed /\ ret[u] = "id"
    /\ \E x \in chat_exchanges :
         x.id = ev[u].exchange_id /\ x.answer = ErrorText /\ x.question = ev[u].question

(***************************************************************************)
(* Properties of the classifier                                            *)
(***************************************************************************)
\* whole-word occurrences of the keywords of category c in the question
RECURSIVE SumOccurrences(_, _, _)
SumOccurrences(c, question_lower, i) ==
  IF i > Len(SUBJECT_CATEGORIES[c].keywords) THEN 0
  ELSE findall(keyword_lower[c][i], question_lower) + SumOccurrences(c, question_lower, i + 1)
Occurrences(c, question_lower) == SumOccurrences(c, question_lower, 1)

\* a keyword of category c longer than 6 has a whole-word match in the question
LongKeywordMatched(c, question_lower) ==
  \E i \in DOMAIN SUBJECT_CATEGORIES[c].keywords :
    /\ Len(SUBJECT_CATEGORIES[c].keywords[i]) > 6
    /\ findall(keyword_lower[c][i], question_lower) > 0

\* C7: the top-scoring category is returned if its score is at least 2, or is 1
\* with a whole-word match of one of its keywords longer than 6; in every other
\* case no label is returned.
C7_ConfidenceGate ==
  (cpc = "done" /\ question # <<>>) =>
    LET question_lower == lower(question)
        scores == category_scores(question_lower)
    IN IF DOMAIN scores = {} THEN label = None
       ELSE LET best == best_category(scores)
                accepted == \/ scores[best] >= 2
                            \/ scores[best] = 1 /\ LongKeywordMatched(best, question_lower)
            IN label = IF accepted THEN SUBJECT_CATEGORIES[best].name ELSE None

\* C8: a question with at least two whole-word keyword occurrences, all of one
\* category, gets that category; a question without any whole-word keyword
\* occurrence, and the empty question, get no label.
C8_TwoOccurrencesOfOneCategory ==
  cpc = "done" =>
    LET question_lower == lower(question)
        occ == [c \in Categories |-> Occurrences(c, question_lower)]
    IN /\ \A c \in Categories :
            (occ[c] >= 2 /\ \A d \in Categories \ {c} : occ[d] = 0)
              => label = SUBJECT_CATEGORIES[c].name
       /\ (\A c \in Categories : occ[c] = 0) => label = None
       /\ question = <<>> => label = None
\* a question with two occurrences of short keywords of one category was labelled
C8_Witness ==
  /\ cpc = "done"
  /\ LET question_lower == lower(question)
     IN \E c \in Categories :
          /\ Occurrences(c, question_lower) >= 2
          /\ ~LongKeywordMatched(c, question_lower)
          /\ \A d \in Categories \ {c} : Occurrences(d, question_lower) = 0
          /\ label = SUBJECT_CATEGORIES[c].name

(***************************************************************************)
(* Updating a rating twice                                                 *)
(***************************************************************************)
\* the arguments update_exchange_rating is called with: stored and unknown ids,
\* both thumbs and the NULL rating a feedback save may carry, every feedback
UpdateArguments ==
  (0..(MaxExchanges + 1)) \X ({<<r>> : r \in Ratings} \cup {NoRating})
                          \X (Feedbacks \cup {None, "bad"})
\* C11: for every reachable persisted state and every argument triple (exchange
\* id, rating, feedback), calling update_exchange_rating twice in a row yields the
\* same stored rows and the same return value as calling it once.
C11_UpdateRatingIdempotent ==
  \A a \in UpdateArguments :
    LET once == update_exchange_rating_on(chat_exchanges, a[1], a[2], a[3])
        twice == update_exchange_rating_on(once.rows, a[1], a[2], a[3])
    IN twice.rows = once.rows /\ twice.ret = once.ret
\* a rated exchange with feedback is stored, on which a call with the other
\* rating and another feedback changes both fields, and a user's call has returned
C11_Witness ==
  /\ \E u \in Users : pc[u] = "done" /\ ev[u].outcome = "updated" /\ ret[u] = "True"
  /\ \E e \in chat_exchanges :
       /\ e.rating = <<1>> /\ e.feedback = "good"
       /\ LET once == update_exchange_rating_on(chat_exchanges, e.id, <<-1>>, "bad")
          IN \E x \in once.rows : x.id = e.id /\ x.rating = <<-1>> /\ x.feedback = "bad"

(***************************************************************************)
(* Equal top scores                                                        *)
(***************************************************************************)
\* the categories that share the greatest positive score of the question
TopCategories(question_lower) ==
  LET score == [c \in Categories |-> CategoryScore(c, question_lower)]
  IN {c \in Categories : score[c] > 0 /\ \A d \in Categories : score[d] <= score[c]}
\* the first category of the table among those of S
FirstInTable(S) == CHOOSE c \in S : \A d \in S : c <= d
\* C12: when two or more categories share the greatest score, the category the
\* classifier goes on with is the one that comes first in SUBJECT_CATEGORIES: a
\* label, if one is returned, is that category, and it is returned whenever the
\* shared score is at least 2 ("function" gives Mathematics, "democracy" History).
C12_TieGoesToFirstInTable ==
  cpc = "done" =>
    LET question_lower == lower(question)
        top == TopCategories(question_lower)
    IN Cardinality(top) >= 2 =>
         LET first == FirstInTable(top)
         IN /\ label \in {None, SUBJECT_CATEGORIES[first].name}
            /\ CategoryScore(first, question_lower) >= 2
                 => label = SUBJECT_CATEGORIES[first].name
\* "function" was classified: Mathematics and Computer Science both score 2 and
\* the label is Mathematics
C12_Witness ==
  /\ cpc = "done"
  /\ question = <<"f","u","n","c","t","i","o","n">>
  /\ Cardinality(TopCategories(lower(question))) = 2
  /\ \E c \in TopCategories(lower(question)) :
       SUBJECT_CATEGORIES[c].name = "Computer Science" /\ c # FirstInTable(TopCategories(lower(question)))
  /\ label = "Mathematics"

(***************************************************************************)
(* Storage handles                                                         *)
(***************************************************************************)
\* C13: every persistence operation holds a handle of its own only while it runs:
\* a user inside delete_study_session holds exactly one, and a user whose
\* operation has returned or raised, on the success path and on every error
\* path, holds none, so that no handle stays open between operations.
C13_HandleReleasedOnEveryPath ==
  \A u \in Users :
    /\ handles[u] = IF pc[u] \in DeleteSteps THEN 1 ELSE 0
    /\ tx[u].open => handles[u] = 1
\* save_chat_exchange has raised for one user, who holds no handle, while the
\* other is inside delete_study_session and holds one
C13_Witness ==
  \E u, v \in Users :
    /\ pc[u] = "done" /\ ev[u].kind = "submit" /\ ret[u] = "IntegrityError"
    /\ handles[u] = 0
    /\ pc[v] \in DeleteSteps /\ tx[v].open /\ handles[v] = 1

(***************************************************************************)
(* Feedback saved while another user rates                                 *)
(***************************************************************************)
\* the step in which the update_exchange_rating call of a feedback save (app.py
\* line 312) commits: the rating of its exchange is the same before and after
C14_FeedbackSaveStep ==
  \A u \in Users :
    (pc[u] = "update" /\ ev[u].kind = "feedback" /\ pc'[u] = "done"
       /\ ev[u].exchange_id \in ExchangeIds) =>
      \E old \in chat_exchanges : \E new \in chat_exchanges' :
        /\ old.id = ev[u].exchange_id
        /\ new.id = old.id
        /\ new.rating = old.rating
\* C14: saving feedback text for an exchange from the chat history view does not
\* change the stored rating of that exchange, under any interleaving of two
\* users' rate actions and feedback saves on the same exchange.
C14_FeedbackSaveKeepsRating == [][C14_FeedbackSaveStep]_vars
====
